---- MODULE Spec2Model ----
(***************************************************************************)
(* A model of the two components of the compositing engine:                *)
(*                                                                         *)
(*   - the input demux pump (core/producer/ffmpeg/input.cpp): a worker     *)
(*     that reads packets of a container into a video and an audio queue,  *)
(*     waits on a condition while both queues exceed PACKET_BUFFER_COUNT,  *)
(*     seeks to the start on end of stream when looping, and a consumer    *)
(*     that pops packets and asks is_eof();                                *)
(*   - the frame mixer (mixer/frame_mixer_device.cpp): the tweened         *)
(*     transforms, the per-tick image and audio passes and the control     *)
(*     operations set/apply/reset.                                         *)
(*                                                                         *)
(* The executor (common/concurrency/executor.h), the easing functions      *)
(* (common/utility/tweener.h) and the transform value types are not among  *)
(* the source files; they are modelled from the specification.             *)
(***************************************************************************)
EXTENDS Integers, Sequences, FiniteSets, TLC

VARIABLES
  \* ---- input pump: fields of input::implementation
  container,              \* the opened file: its streams and its packets
  loop_,
  video_s_index_,
  audio_s_index_,
  video_codec_context_,   \* TRUE: non-null
  audio_codex_context_,   \* TRUE: non-null
  video_time_base,        \* time_base of the video stream's codec context
  ctor_pc,                \* where the constructor is
  fps_ret,                \* value returned by the last fps call
  file_pos,               \* read position of format_context_ (1-based)
  video_packet_buffer_,
  audio_packet_buffer_,
  is_running_,            \* executor_: the stop flag
  execution_queue_,       \* executor_: number of queued read_file tasks
  pump_pc,                \* where the executor's worker thread is
  graph_tag,              \* TRUE: the last read step emitted the "seek" tag
  seek_failed,            \* TRUE: "Failed to seek frame." has been logged
  \* ---- the consumer thread and the thread that destroys the input
  cons_pc,
  ret,                    \* buffer returned by the last get_*_packet call
  eof_ret,                \* value returned by the last is_eof call
  vlast,                  \* last non-empty buffer get_video_packet returned
  alast,                  \* last non-empty buffer get_audio_packet returned
  vcount,                 \* non-empty buffers get_video_packet returned of
                          \* a file played once, up to one more than it holds
  dtor_pc,
  \* ---- frame mixer: fields of frame_mixer_device::implementation
  format_desc_mode,       \* format_desc_.mode
  root_image_transform_,
  image_transforms_,      \* layer index -> tweened transform, the keys present
  root_audio_transform_,
  audio_transforms_,
  image_mixer_,           \* what image_mixer_ accepted in the last pass
  audio_mixer_,           \* what audio_mixer_ accepted in the last pass
  tick_frames,            \* the frames of the last tick
  ticks,                  \* tick tasks executed
  outputs,                \* composites published to output_
  ops,                    \* control operations executed
  last_reset,             \* the last control operation, if it was a reset:
                          \* which one, its mix_duration and the ticks
                          \* executed before it
  \* ---- the mixer's executor_ and the threads that call the mixer
  exec_queue,             \* executor_: the tasks submitted and not completed,
                          \* each with the point its execution has reached
  send_call,              \* the call of send in progress, if any
  ctl_call,               \* the call of a control operation in progress
  ctl_last,               \* the last call of a control operation that has
                          \* ended: its easing name and what it threw
  sent                    \* calls of send that have returned

\* what the constructor sets and nothing changes afterwards
openVars == <<container, loop_, video_s_index_, audio_s_index_,
              video_codec_context_, audio_codex_context_>>

fileVars == <<openVars, video_time_base, ctor_pc, fps_ret>>

mixerVars == <<format_desc_mode, root_image_transform_, image_transforms_,
               root_audio_transform_, audio_transforms_, image_mixer_,
               audio_mixer_, tick_frames, ticks, outputs, ops,
               last_reset, exec_queue, send_call, ctl_call, sent,
               ctl_last>>

execVars == <<exec_queue, send_call, ctl_call, sent>>

pumpVars == <<container, loop_, video_s_index_, audio_s_index_,
              video_codec_context_, audio_codex_context_, video_time_base,
              ctor_pc, fps_ret, file_pos,
              video_packet_buffer_, audio_packet_buffer_, is_running_,
              execution_queue_, pump_pc, graph_tag, seek_failed,
              cons_pc, ret, eof_ret, vlast, alast, vcount, dtor_pc>>

vars == <<pumpVars, mixerVars>>

(***************************************************************************)
(* Bounds of the model                                                     *)
(***************************************************************************)
\* A seek to the start is only let succeed while fewer than MaxQueued
\* packets are queued in total: it keeps a looping pump's queues finite.
MaxQueued == 104

(***************************************************************************)
(* The container                                                           *)
(***************************************************************************)
PACKET_BUFFER_COUNT == 50

Stream(type, decoder) == [codec_type |-> type, decoder |-> decoder]

\* streams[i] is the stream of index i-1; packets[p] is the stream index of
\* the p-th packet. The payload of the p-th packet is modelled as p (a
\* non-empty buffer); 0 stands for the empty aligned_buffer().
\* The files the pump is opened on, each with the loop argument.
AudioVideoFile ==
  [streams |-> <<Stream("audio", TRUE), Stream("video", TRUE)>>,
   packets |-> <<1, 0>>]
VideoDataAudioFile ==
  [streams |-> <<Stream("video", TRUE), Stream("data", TRUE),
                 Stream("audio", TRUE)>>,
   packets |-> <<0, 1, 0, 2>>]
VideoFile ==
  [streams |-> <<Stream("video", TRUE)>>,
   packets |-> <<0, 0, 0>>]
\* a file whose audio stream no decoder can be found or opened for
UndecodableAudioFile ==
  [streams |-> <<Stream("video", TRUE), Stream("audio", FALSE)>>,
   packets |-> <<0, 1, 0>>]

Inputs ==
  { [file |-> AudioVideoFile,     loop |-> TRUE],
    [file |-> AudioVideoFile,     loop |-> FALSE],
    [file |-> VideoDataAudioFile, loop |-> FALSE],
    [file |-> VideoFile,          loop |-> TRUE],
    [file |-> VideoFile,          loop |-> FALSE],
    [file |-> UndecodableAudioFile, loop |-> FALSE] }

EmptyBuffer == 0

\* std::find_if over format_context_->streams: the first stream of the type
FirstStream(c, type) ==
  LET S == {i \in 1..Len(c.streams) : c.streams[i].codec_type = type}
  IN  IF S = {} THEN 0 ELSE CHOOSE i \in S : \A j \in S : i <= j

\* open_stream: s_index is written as soon as a stream of the type is found,
\* before the decoder is looked up and opened.
open_stream(c, type) ==
  LET i == FirstStream(c, type)
  IN  IF i = 0 THEN [context |-> FALSE, s_index |-> -1]
      ELSE [context |-> c.streams[i].decoder, s_index |-> i - 1]

(***************************************************************************)
(* Construction                                                            *)
(***************************************************************************)
\* the number of decimal digits of den, less one: floor(log10(den)), den >= 1
RECURSIVE Log10Floor(_)
Log10Floor(den) == IF den < 10 THEN 0 ELSE 1 + Log10Floor(den \div 10)

\* the least den of k decimal digits for which the float std::log10 of the
\* float nearest to den is k itself, not a float below k: close to 10^k the
\* float nearest to the logarithm is k (and from 2^24 on den itself is
\* rounded, to 24 significant bits). Numbers of fewer than 7 digits have
\* none; a den of 10 digits is below 2^31.
Log10fRoundsUpFrom(k) ==
  CASE k = 7 -> 9999995
    [] k = 8 -> 99999941
    [] k = 9 -> 999998816
    [] OTHER -> 0

\* static_cast<int>(std::log10(static_cast<float>(den))), den >= 1
Log10Trunc(den) ==
  LET k == Log10Floor(den) + 1
  IN  IF Log10fRoundsUpFrom(k) # 0 /\ den >= Log10fRoundsUpFrom(k)
        THEN k ELSE k - 1

\* static_cast<int>(std::pow(10.0, e)): 10^e, and 0 for 10^-1 = 0.1
RECURSIVE Pow10Trunc(_)
Pow10Trunc(e) ==
  IF e < 0 THEN 0 ELSE IF e = 0 THEN 1 ELSE 10 * Pow10Trunc(e - 1)

\* fix_time_base, lines 124-128
fix_time_base(context, time_base) ==
  IF context /\ time_base.num = 1
    THEN [time_base EXCEPT !.num = Pow10Trunc(Log10Trunc(time_base.den) - 1)]
    ELSE time_base

\* the constructor, lines 93-103: the video context's time base is repaired
\* when the video stream opened, and once more when the audio stream opened
Constructed(time_base, video, audio) ==
  LET first == IF video THEN fix_time_base(video, time_base) ELSE time_base
  IN  IF audio THEN fix_time_base(video, first) ELSE first

\* the time base of the video streams of the files the pump is run on
PalTimeBase == [num |-> 1, den |-> 25]

NoFps == [kind |-> "none"]

\* the constructor has opened the streams
InitOpened ==
  /\ \E in \in Inputs : container = in.file /\ loop_ = in.loop
  /\ video_s_index_ = open_stream(container, "video").s_index
  /\ audio_s_index_ = open_stream(container, "audio").s_index
  /\ video_codec_context_ = open_stream(container, "video").context
  /\ audio_codex_context_ = open_stream(container, "audio").context
  /\ (video_codec_context_ \/ audio_codex_context_)
  /\ file_pos = 1
  /\ video_packet_buffer_ = <<>>
  /\ audio_packet_buffer_ = <<>>
  /\ is_running_ = TRUE          \* executor_.start()
  /\ execution_queue_ = 1        \* executor_.begin_invoke(read_file)
  /\ pump_pc = "idle"
  /\ graph_tag = FALSE
  /\ seek_failed = FALSE
  /\ cons_pc = "idle"
  /\ ret = EmptyBuffer
  /\ eof_ret = FALSE
  /\ vlast = EmptyBuffer
  /\ alast = EmptyBuffer
  /\ vcount = 0
  /\ dtor_pc = "alive"

\* the input as constructed
InitPump ==
  /\ InitOpened
  /\ video_time_base =
       Constructed(PalTimeBase, video_codec_context_, audio_codex_context_)
  /\ ctor_pc = "done"
  /\ fps_ret = NoFps

(***************************************************************************)
(* The executor's worker thread and read_file                              *)
(***************************************************************************)
Queued == Len(video_packet_buffer_) + Len(audio_packet_buffer_)

\* executor: while(is_running_) execute(); execute pops a task, blocking
Executor_Run ==
  /\ pump_pc = "idle"
  /\ IF ~is_running_
       THEN /\ pump_pc' = "done"
            /\ UNCHANGED execution_queue_
       ELSE /\ execution_queue_ > 0
            /\ execution_queue_' = execution_queue_ - 1
            /\ pump_pc' = "read"
  /\ UNCHANGED <<mixerVars, fileVars, file_pos, video_packet_buffer_,
                 audio_packet_buffer_, is_running_, graph_tag, seek_failed,
                 cons_pc, ret, eof_ret, vlast, vcount, alast, dtor_pc>>

\* read_file with every packet that is not audio taken for video
PushVideo_Mutant(s) == s # audio_s_index_

\* read_file, lines 159-160: the packet goes to the video queue
PushVideo(s) == s = video_s_index_

\* read_file with every packet that is not video taken for audio
PushAudio_Mutant(s) == s # video_s_index_

\* read_file, lines 161-162: else, the packet goes to the audio queue
PushAudio(s) == s # video_s_index_ /\ s = audio_s_index_

\* read_file with the result of seek_frame not looked at
StopsAfterFailedRead_SeekIgnored_Mutant(sought) == ~loop_

\* read_file with the result of seek_frame taken the wrong way round
StopsAfterFailedRead_Mutant(sought) == ~loop_ \/ sought

\* read_file, line 164: !loop_ || !seek_frame(0, AVSEEK_FLAG_BACKWARD), where
\* sought is the result of the seek (not attempted when loop_ is false)
StopsAfterFailedRead(sought) == ~loop_ \/ ~sought

\* seek_frame, lines 179-193: the position av_seek_frame leaves the file at
\* when it succeeds with target 0
SeekStart == 1

\* read_file, lines 156-167: read one packet and route it, or stop, or seek
ReadFile_Read ==
  /\ pump_pc = "read"
  /\ pump_pc' = "enqueue"
  /\ IF file_pos <= Len(container.packets)
       THEN LET s == container.packets[file_pos] IN
            /\ file_pos' = file_pos + 1
            /\ video_packet_buffer_' =
                 IF PushVideo(s) THEN Append(video_packet_buffer_, file_pos)
                                 ELSE video_packet_buffer_
            /\ audio_packet_buffer_' =
                 IF PushAudio(s) THEN Append(audio_packet_buffer_, file_pos)
                                 ELSE audio_packet_buffer_
            /\ graph_tag' = FALSE
            /\ UNCHANGED <<is_running_, seek_failed>>
       ELSE \E sought \in (IF loop_ THEN BOOLEAN ELSE {FALSE}) :
            /\ sought => Queued < MaxQueued
            /\ IF StopsAfterFailedRead(sought)
                 THEN /\ is_running_' = FALSE      \* executor_.stop()
                      /\ graph_tag' = FALSE
                      /\ UNCHANGED file_pos
                 ELSE /\ file_pos' = SeekStart
                      /\ graph_tag' = TRUE         \* graph_->tag("seek")
                      /\ UNCHANGED is_running_
            /\ seek_failed' = (seek_failed \/ (loop_ /\ ~sought))
            /\ UNCHANGED <<video_packet_buffer_, audio_packet_buffer_>>
  /\ UNCHANGED <<mixerVars, fileVars, execution_queue_, cons_pc, ret,
                 eof_ret, vlast, vcount, alast, dtor_pc>>

\* read_file, line 173: executor_.begin_invoke([this]{read_file();})
ReadFile_Enqueue ==
  /\ pump_pc = "enqueue"
  /\ execution_queue_' = execution_queue_ + 1
  /\ pump_pc' = "check"
  /\ UNCHANGED <<mixerVars, fileVars, file_pos, video_packet_buffer_,
                 audio_packet_buffer_, is_running_, graph_tag, seek_failed,
                 cons_pc, ret, eof_ret, vlast, vcount, alast, dtor_pc>>

\* the predicate with each queue let one packet further
WaitPredicate_Mutant ==
  /\ is_running_
  /\ Len(audio_packet_buffer_) > PACKET_BUFFER_COUNT + 1
  /\ Len(video_packet_buffer_) > PACKET_BUFFER_COUNT + 1

\* the predicate of the while loop of line 175
WaitPredicate ==
  /\ is_running_
  /\ Len(audio_packet_buffer_) > PACKET_BUFFER_COUNT
  /\ Len(video_packet_buffer_) > PACKET_BUFFER_COUNT

\* read_file, lines 174-175: the predicate is evaluated holding mutex_
ReadFile_Check ==
  /\ pump_pc = "check"
  /\ pump_pc' = IF WaitPredicate THEN "block" ELSE "idle"
  /\ UNCHANGED <<mixerVars, fileVars, file_pos, video_packet_buffer_,
                 audio_packet_buffer_, is_running_, execution_queue_,
                 graph_tag, seek_failed, cons_pc, ret, eof_ret, vlast,
                 vcount, alast, dtor_pc>>

\* read_file, line 176: cond_.wait(lock) starts to block. A notify_all that
\* comes before this step finds no waiter: it takes no mutex.
ReadFile_Wait ==
  /\ pump_pc = "block"
  /\ pump_pc' = "wait"
  /\ UNCHANGED <<mixerVars, fileVars, file_pos, video_packet_buffer_,
                 audio_packet_buffer_, is_running_, execution_queue_,
                 graph_tag, seek_failed, cons_pc, ret, eof_ret, vlast,
                 vcount, alast, dtor_pc>>

\* cond_.notify_all(): a thread blocked in cond_.wait goes back to the
\* predicate; any other thread is not affected
NotifyAll(pc) == IF pc = "wait" THEN "check" ELSE pc

(***************************************************************************)
(* The consumer                                                            *)
(***************************************************************************)
\* get_packet, line 207: cond_.notify_all(), before the pop
GetPacket_Notify(pop) ==
  /\ cons_pc = "idle"
  /\ dtor_pc = "alive"
  /\ cons_pc' = pop
  /\ pump_pc' = NotifyAll(pump_pc)
  /\ UNCHANGED <<mixerVars, fileVars, file_pos, video_packet_buffer_,
                 audio_packet_buffer_, is_running_, execution_queue_,
                 graph_tag, seek_failed, ret, eof_ret, vlast, vcount, alast,
                 dtor_pc>>

\* get_video_packet, line 197, and get_audio_packet, line 202
GetVideoPacket_Notify == GetPacket_Notify("pop_video")
GetAudioPacket_Notify == GetPacket_Notify("pop_audio")

\* get_packet, lines 208-209: try_pop, else an empty buffer
TryPop(buffer) ==
  IF buffer = <<>> THEN [packet |-> EmptyBuffer, buffer |-> buffer]
                   ELSE [packet |-> Head(buffer), buffer |-> Tail(buffer)]

GetVideoPacket_Pop ==
  /\ cons_pc = "pop_video"
  /\ cons_pc' = "idle"
  /\ ret' = TryPop(video_packet_buffer_).packet
  /\ video_packet_buffer_' = TryPop(video_packet_buffer_).buffer
  /\ vlast' = IF ret' # EmptyBuffer THEN ret' ELSE vlast
  /\ vcount' = IF ~loop_ /\ ret' # EmptyBuffer
                    /\ vcount <= Len(container.packets)
                 THEN vcount + 1 ELSE vcount
  /\ UNCHANGED <<mixerVars, fileVars, file_pos, audio_packet_buffer_,
                 is_running_, execution_queue_, pump_pc, graph_tag,
                 seek_failed, eof_ret, alast, dtor_pc>>

GetAudioPacket_Pop ==
  /\ cons_pc = "pop_audio"
  /\ cons_pc' = "idle"
  /\ ret' = TryPop(audio_packet_buffer_).packet
  /\ audio_packet_buffer_' = TryPop(audio_packet_buffer_).buffer
  /\ alast' = IF ret' # EmptyBuffer THEN ret' ELSE alast
  /\ UNCHANGED <<mixerVars, fileVars, file_pos, video_packet_buffer_,
                 is_running_, execution_queue_, pump_pc, graph_tag,
                 seek_failed, eof_ret, vlast, vcount, dtor_pc>>

\* is_eof, line 214: three reads, left to right, stopping at the first
\* false conjunct
IsEof_Running ==
  /\ cons_pc = "idle"
  /\ dtor_pc = "alive"
  /\ IF is_running_
       THEN /\ eof_ret' = FALSE
            /\ cons_pc' = "idle"
       ELSE /\ cons_pc' = "eof_video"
            /\ UNCHANGED eof_ret
  /\ UNCHANGED <<mixerVars, fileVars, file_pos, video_packet_buffer_,
                 audio_packet_buffer_, is_running_, execution_queue_,
                 pump_pc, graph_tag, seek_failed, ret, vlast, vcount, alast,
                 dtor_pc>>

IsEof_Video ==
  /\ cons_pc = "eof_video"
  /\ IF video_packet_buffer_ # <<>>
       THEN /\ eof_ret' = FALSE
            /\ cons_pc' = "idle"
       ELSE /\ cons_pc' = "eof_audio"
            /\ UNCHANGED eof_ret
  /\ UNCHANGED <<mixerVars, fileVars, file_pos, video_packet_buffer_,
                 audio_packet_buffer_, is_running_, execution_queue_,
                 pump_pc, graph_tag, seek_failed, ret, vlast, vcount, alast,
                 dtor_pc>>

\* is_eof with the audio queue forgotten
IsEof_Audio_Mutant ==
  /\ cons_pc = "eof_audio"
  /\ eof_ret' = TRUE
  /\ cons_pc' = "idle"
  /\ UNCHANGED <<mixerVars, fileVars, file_pos, video_packet_buffer_,
                 audio_packet_buffer_, is_running_, execution_queue_,
                 pump_pc, graph_tag, seek_failed, ret, vlast, vcount, alast,
                 dtor_pc>>

IsEof_Audio ==
  /\ cons_pc = "eof_audio"
  /\ eof_ret' = (audio_packet_buffer_ = <<>>)
  /\ cons_pc' = "idle"
  /\ UNCHANGED <<mixerVars, fileVars, file_pos, video_packet_buffer_,
                 audio_packet_buffer_, is_running_, execution_queue_,
                 pump_pc, graph_tag, seek_failed, ret, vlast, vcount, alast,
                 dtor_pc>>

(***************************************************************************)
(* Destruction                                                             *)
(***************************************************************************)
\* ~implementation, line 118: executor_.clear()
Dtor_Clear ==
  /\ dtor_pc = "alive"
  /\ cons_pc = "idle"
  /\ execution_queue_' = 0
  /\ dtor_pc' = "stop"
  /\ UNCHANGED <<mixerVars, fileVars, file_pos, video_packet_buffer_,
                 audio_packet_buffer_, is_running_, pump_pc, graph_tag,
                 seek_failed, cons_pc, ret, eof_ret, vlast, vcount, alast>>

\* ~implementation, line 119: executor_.stop()
Dtor_Stop ==
  /\ dtor_pc = "stop"
  /\ is_running_' = FALSE
  /\ dtor_pc' = "notify"
  /\ UNCHANGED <<mixerVars, fileVars, file_pos, video_packet_buffer_,
                 audio_packet_buffer_, execution_queue_, pump_pc, graph_tag,
                 seek_failed, cons_pc, ret, eof_ret, vlast, vcount, alast>>

\* ~implementation, line 120: cond_.notify_all(), mutex_ not held
Dtor_Notify ==
  /\ dtor_pc = "notify"
  /\ pump_pc' = NotifyAll(pump_pc)
  /\ dtor_pc' = "join"
  /\ UNCHANGED <<mixerVars, fileVars, file_pos, video_packet_buffer_,
                 audio_packet_buffer_, is_running_, execution_queue_,
                 graph_tag, seek_failed, cons_pc, ret, eof_ret, vlast,
                 vcount, alast>>

\* the members are destroyed: executor_ joins its worker thread
Dtor_Join ==
  /\ dtor_pc = "join"
  /\ pump_pc = "done"
  /\ dtor_pc' = "destroyed"
  /\ UNCHANGED <<mixerVars, fileVars, file_pos, video_packet_buffer_,
                 audio_packet_buffer_, is_running_, execution_queue_,
                 pump_pc, graph_tag, seek_failed, cons_pc, ret, eof_ret,
                 vlast, vcount, alast>>

(***************************************************************************)
(* Numbers of the mixer. A transform value is modelled by its one numeric  *)
(* field (the opacity of an image transform, the gain of an audio          *)
(* transform) as an exact non-negative rational num/den; num and den are   *)
(* naturals of any size, kept as sequences of base-10000 digits, lowest    *)
(* first, because the tween's duration + 0.000001 gives denominators that  *)
(* do not fit a machine integer once tweens are nested.                    *)
(***************************************************************************)
LimbBase == 100 * 100

RECURSIVE BigNorm(_)
BigNorm(a) ==
  IF a # <<>> /\ a[Len(a)] = 0 THEN BigNorm(SubSeq(a, 1, Len(a) - 1)) ELSE a

RECURSIVE BigOfNat(_)
BigOfNat(n) ==
  IF n = 0 THEN <<>> ELSE <<n % LimbBase>> \o BigOfNat(n \div LimbBase)

LowLimb(a) == IF a = <<>> THEN 0 ELSE Head(a)
HighLimbs(a) == IF a = <<>> THEN <<>> ELSE Tail(a)

RECURSIVE BigAddCarry(_, _, _)
BigAddCarry(a, b, c) ==
  IF a = <<>> /\ b = <<>> THEN BigOfNat(c)
  ELSE LET x == LowLimb(a) + LowLimb(b) + c
       IN  <<x % LimbBase>> \o BigAddCarry(HighLimbs(a), HighLimbs(b), x \div LimbBase)

BigAdd(a, b) == BigNorm(BigAddCarry(a, b, 0))

RECURSIVE BigMulLimb(_, _, _)
BigMulLimb(a, m, c) ==
  IF a = <<>> THEN BigOfNat(c)
  ELSE LET x == Head(a) * m + c
       IN  <<x % LimbBase>> \o BigMulLimb(Tail(a), m, x \div LimbBase)

RECURSIVE BigMul(_, _)
BigMul(a, b) ==
  IF a = <<>> \/ b = <<>> THEN <<>>
  ELSE BigNorm(BigAddCarry(BigMulLimb(a, Head(b), 0),
                           <<0>> \o BigMul(a, Tail(b)), 0))

Rat(n, d) == [num |-> BigOfNat(n), den |-> BigOfNat(d)]

\* 0 and 1 are kept in one form each
RatNorm(r) ==
  IF r.num = <<>> THEN Rat(0, 1) ELSE IF r.num = r.den THEN Rat(1, 1) ELSE r

RatEq(a, b) == BigMul(a.num, b.den) = BigMul(b.num, a.den)

RatMul(a, b) ==
  RatNorm([num |-> BigMul(a.num, b.num), den |-> BigMul(a.den, b.den)])

(***************************************************************************)
(* Transforms and tweens                                                   *)
(***************************************************************************)
\* image_transform() and audio_transform(): the identity
TransformIdentity == Rat(1, 1)

\* operator*: the composition of two transforms
TransformMul(a, b) == RatMul(a, b)

\* operator!= of two transforms, negated
TransformEq(a, b) == RatEq(a, b)

\* 1 / 0.000001, the reciprocal of what fetch adds to the duration
TWEEN_EPSILON_INV == 1000000

\* the "linear" tweener at time t of a tween from source to dest lasting
\* duration + 0.000001: source + (dest - source) * t / (duration + 0.000001),
\* computed as (source * (D - T) + dest * T) / D with D = duration * 10^6 + 1
\* and T = t * 10^6. At t = 0, and for dest = source, it is source itself.
TweenLinear(t, source, dest, duration) ==
  IF t = 0 \/ RatEq(source, dest) THEN source
  ELSE LET D == duration * TWEEN_EPSILON_INV + 1
           T == t * TWEEN_EPSILON_INV
       IN  RatNorm(
             [num |-> BigAdd(BigMul(BigMul(source.num, dest.den), BigOfNat(D - T)),
                             BigMul(BigMul(dest.num, source.den), BigOfNat(T))),
              den |-> BigMul(BigMul(source.den, dest.den), BigOfNat(D))])

\* get_tweener: the easing functions known by name
TweenNames == {"linear"}

\* tween(time, source, dest, duration + 0.000001, tweener)
Tween(t, source, dest, duration, tweener) ==
  CASE tweener = "linear" -> TweenLinear(t, source, dest, duration)

\* tweened_transform(source, dest, duration, tween): time_ starts at 0
TweenedTransform(source, dest, duration, tweener) ==
  [source |-> source, dest |-> dest, duration |-> duration, time |-> 0,
   tweener |-> tweener]

\* tweened_transform(): duration 0, linear, source and dest the identity
DefaultTweenedTransform ==
  TweenedTransform(TransformIdentity, TransformIdentity, 0, "linear")

\* tweened_transform::fetch
Fetch(tw) == Tween(tw.time, tw.source, tw.dest, tw.duration, tw.tweener)

MinInt(a, b) == IF a < b THEN a ELSE b

\* tweened_transform::fetch_and_tick: the tween after time_ is advanced; the
\* value returned is Fetch of it
FetchAndTick(tw, num) ==
  [tw EXCEPT !.time = MinInt(tw.time + num, tw.duration)]

\* std::unordered_map::operator[]: the entry, default-constructed if absent
At(map, index) ==
  IF index \in DOMAIN map THEN map[index] ELSE DefaultTweenedTransform

Put(map, index, tw) ==
  [k \in DOMAIN map \cup {index} |-> IF k = index THEN tw ELSE map[k]]

(***************************************************************************)
(* Frames and the tick                                                     *)
(***************************************************************************)
\* the layer index of a frame no layer was set on
NoLayer == -1

Frame(layer) == [kind |-> "frame", layer |-> layer]
EmptyFrame == [kind |-> "empty", layer |-> NoLayer]   \* basic_frame::empty()
EofFrame == [kind |-> "eof", layer |-> NoLayer]       \* basic_frame::eof()

\* a frame whose accept(image_mixer_), or accept(audio_mixer_), throws
ImageFailsFrame(layer) == [kind |-> "image_fails", layer |-> layer]
AudioFailsFrame(layer) == [kind |-> "audio_fails", layer |-> layer]

RECURSIVE Remove(_, _)
\* frames.erase(std::remove(frames.begin(), frames.end(), x), frames.end())
Remove(frames, x) ==
  IF frames = <<>> THEN <<>>
  ELSE IF Head(frames) = x THEN Remove(Tail(frames), x)
  ELSE <<Head(frames)>> \o Remove(Tail(frames), x)

\* mix_image, lines 117-120: an interlaced frame is always built
AcceptFields_Mutant(layer, t1, t2) ==
  [kind |-> "interlaced", layer |-> layer, first |-> t1, transform |-> t2]

\* mix_image, lines 117-120: what image_mixer_ is given for the two fields of
\* a frame, the interlaced frame of both if their transforms differ, else the
\* second field's frame alone
AcceptFields(layer, t1, t2) ==
  IF ~TransformEq(t1, t2)
    THEN [kind |-> "interlaced", layer |-> layer,
          first |-> t1, transform |-> t2]
    ELSE [kind |-> "frame", layer |-> layer,
          first |-> t2, transform |-> t2]

\* mix_image, lines 109-127: one frame. The result is the two tweens after
\* the frame and what image_mixer_ accepts for it.
MixImageFrame(frame, root, map) ==
  LET layer == frame.layer IN
  IF format_desc_mode # "progressive"
    THEN LET root1 == FetchAndTick(root, 1)
             tw1   == FetchAndTick(At(map, layer), 1)
             t1    == TransformMul(Fetch(root1), Fetch(tw1))
             root2 == FetchAndTick(root1, 1)
             tw2   == FetchAndTick(tw1, 1)
             t2    == TransformMul(Fetch(root2), Fetch(tw2))
         IN  [root |-> root2,
              map |-> Put(map, layer, tw2),
              accepted |-> AcceptFields(layer, t1, t2)]
    ELSE LET root1 == FetchAndTick(root, 1)
             tw1   == FetchAndTick(At(map, layer), 1)
             t1    == TransformMul(Fetch(root1), Fetch(tw1))
         IN  [root |-> root1,
              map |-> Put(map, layer, tw1),
              accepted |-> [kind |-> "frame", layer |-> layer,
                            first |-> t1, transform |-> t1]]

RECURSIVE MixImageFrames(_, _, _, _)
\* mix_image, lines 107-128: BOOST_FOREACH(auto& frame, frames)
MixImageFrames(frames, root, map, accepted) ==
  IF frames = <<>>
    THEN [root |-> root, map |-> map, accepted |-> accepted, thrown |-> FALSE]
  ELSE LET r == MixImageFrame(Head(frames), root, map)
       IN  IF Head(frames).kind = "image_fails"
             \* accept throws, the transforms fetched and ticked before it:
             \* nothing catches, the exception leaves mix_image
             THEN [root |-> r.root, map |-> r.map, accepted |-> accepted,
                   thrown |-> TRUE]
             ELSE MixImageFrames(Tail(frames), r.root, r.map,
                                 Append(accepted, r.accepted))

\* mix_image, lines 101-131
mix_image(frames) ==
  MixImageFrames(Remove(Remove(frames, EmptyFrame), EofFrame),
                 root_image_transform_, image_transforms_, <<>>)

\* mix_audio, lines 138-142: one frame
MixAudioFrame(frame, root, map) ==
  LET layer == frame.layer
      num   == IF format_desc_mode = "progressive" THEN 1 ELSE 2
      root1 == FetchAndTick(root, num)
      tw1   == FetchAndTick(At(map, layer), num)
  IN  [root |-> root1,
       map |-> Put(map, layer, tw1),
       accepted |-> [kind |-> frame.kind, layer |-> layer,
                     transform |-> TransformMul(Fetch(root1), Fetch(tw1))]]

RECURSIVE MixAudioFrames(_, _, _, _)
\* mix_audio, lines 136-143: BOOST_FOREACH(auto& frame, frames)
MixAudioFrames(frames, root, map, accepted) ==
  IF frames = <<>>
    THEN [root |-> root, map |-> map, accepted |-> accepted, thrown |-> FALSE]
  ELSE LET r == MixAudioFrame(Head(frames), root, map)
       IN  IF Head(frames).kind = "audio_fails"
             THEN [root |-> r.root, map |-> r.map, accepted |-> accepted,
                   thrown |-> TRUE]
             ELSE MixAudioFrames(Tail(frames), r.root, r.map,
                                 Append(accepted, r.accepted))

\* mix_audio, lines 133-146: the frames are those send was given
mix_audio(frames) ==
  MixAudioFrames(frames, root_audio_transform_, audio_transforms_, <<>>)

(***************************************************************************)
(* Bounds and inputs of the mixer                                          *)
(***************************************************************************)
MaxTicks == 2
MaxOps == 2
MaxMixerOps == 1
MaxDuration == 2
MaxFrames == 2

Layers == {0, 1}
\* the layers the control operations address; the other layer's tweens are
\* the ones operator[] default-constructs
ControlLayers == {0}
Durations == {0, MaxDuration}
TransformValues == {Rat(0, 1), Rat(1, 2)}
FrameChoices == {Frame(l) : l \in Layers} \cup {EmptyFrame, EofFrame}
FrameLists == UNION {[1..n -> FrameChoices] : n \in 0..MaxFrames}

\* the functions given to apply_*_transform
TransformFunctions == {"half"}
ApplyFunction(fn, t) ==
  CASE fn = "half" -> RatMul(t, Rat(1, 2))

(***************************************************************************)
(* Construction of the mixer, send and the control operations. Every one   *)
(* of them runs as one task of the mixer's executor, which has one worker: *)
(* a task is one step.                                                     *)
(***************************************************************************)
\* no call of send, no call of a control operation in progress
NoSend == [active |-> FALSE, frames |-> <<>>]
NoCtl == [pc |-> "idle"]

\* no reset_*_transform was the last control operation
NoReset == [kind |-> "none", duration |-> 0, tick |-> 0]

InitMixer ==
  /\ format_desc_mode \in {"progressive", "upper"}
  /\ root_image_transform_ = DefaultTweenedTransform
  /\ image_transforms_ = <<>>
  /\ root_audio_transform_ = DefaultTweenedTransform
  /\ audio_transforms_ = <<>>
  /\ image_mixer_ = <<>>
  /\ audio_mixer_ = <<>>
  /\ tick_frames = <<>>
  /\ ticks = 0
  /\ outputs = 0
  /\ ops = 0
  /\ last_reset = NoReset
  /\ exec_queue = <<>>
  /\ send_call = NoSend
  /\ ctl_call = NoCtl
  /\ sent = 0
  /\ ctl_last = [tween |-> "none", error |-> "none"]

\* send, lines 148-165: the task it queues. An exception thrown by
\* mix_image (line 155) or mix_audio (line 156) leaves the task: what follows
\* the throw, output_ (line 157) included, is not executed.
Tick(frames) ==
  /\ LET image == mix_image(frames)
         audio == mix_audio(frames)
     IN  /\ root_image_transform_' = image.root
         /\ image_transforms_' = image.map
         /\ image_mixer_' = image.accepted
         /\ IF image.thrown
              THEN UNCHANGED <<root_audio_transform_, audio_transforms_,
                               audio_mixer_>>
              ELSE /\ root_audio_transform_' = audio.root
                   /\ audio_transforms_' = audio.map
                   /\ audio_mixer_' = audio.accepted
         /\ outputs' = IF image.thrown \/ audio.thrown THEN outputs
                                                       ELSE outputs + 1
  /\ tick_frames' = frames
  /\ ticks' = ticks + 1
  /\ UNCHANGED <<pumpVars, format_desc_mode, ops, last_reset, execVars,
                 ctl_last>>

Send ==
  /\ ticks < MaxTicks
  /\ \E frames \in FrameLists : Tick(frames)

\* get_tweener, called by the constructor of a tween: a name it does not
\* know makes it throw
Throws(tweener) == tweener \notin TweenNames

\* a tween put in place although the easing name is unknown, with the linear
\* easing
Retarget_Mutant(tw, dest, duration, tweener) ==
  TweenedTransform(Fetch(tw), dest, duration, "linear")

\* a tween put in place that starts from the target of the old tween, not
\* from the value the old tween has reached
Retarget_FromDest_Mutant(tw, dest, duration, tweener) ==
  IF Throws(tweener) THEN tw
  ELSE TweenedTransform(tw.dest, dest, duration, tweener)

\* the tween a set or apply or reset leaves in place of tween tw: the new
\* one, or tw itself when the constructor of the new one throws, before the
\* assignment
Retarget(tw, dest, duration, tweener) ==
  IF Throws(tweener) THEN tw
  ELSE TweenedTransform(Fetch(tw), dest, duration, tweener)

\* executor_.invoke of a control operation called with easing name tween, its
\* task run to its end and the call returned, or thrown to the caller
ControlOp(tween) ==
  /\ ops < MaxOps
  /\ ops' = ops + 1
  /\ ctl_last' = [tween |-> tween,
                  error |-> IF Throws(tween) THEN "invalid_easing"
                                             ELSE "none"]
  /\ UNCHANGED <<pumpVars, format_desc_mode, image_mixer_, audio_mixer_,
                 tick_frames, ticks, outputs, execVars>>

\* set_image_transform(transform, mix_duration, tween), lines 172-180
SetImageTransform(transform, mix_duration, tween) ==
  /\ ControlOp(tween)
  /\ last_reset' = NoReset
  /\ root_image_transform_' =
       Retarget(root_image_transform_, transform, mix_duration, tween)
  /\ UNCHANGED <<image_transforms_, root_audio_transform_, audio_transforms_>>

\* set_audio_transform(transform, mix_duration, tween), lines 182-190
SetAudioTransform(transform, mix_duration, tween) ==
  /\ ControlOp(tween)
  /\ last_reset' = NoReset
  /\ root_audio_transform_' =
       Retarget(root_audio_transform_, transform, mix_duration, tween)
  /\ UNCHANGED <<root_image_transform_, image_transforms_, audio_transforms_>>

\* set_image_transform(index, transform, mix_duration, tween), lines 192-200
SetImageTransformAt(index, transform, mix_duration, tween) ==
  /\ ControlOp(tween)
  /\ last_reset' = NoReset
  /\ image_transforms_' =
       Put(image_transforms_, index,
           Retarget(At(image_transforms_, index), transform, mix_duration, tween))
  /\ UNCHANGED <<root_image_transform_, root_audio_transform_, audio_transforms_>>

\* set_audio_transform(index, transform, mix_duration, tween), lines 202-210
SetAudioTransformAt(index, transform, mix_duration, tween) ==
  /\ ControlOp(tween)
  /\ last_reset' = NoReset
  /\ audio_transforms_' =
       Put(audio_transforms_, index,
           Retarget(At(audio_transforms_, index), transform, mix_duration, tween))
  /\ UNCHANGED <<root_image_transform_, image_transforms_, root_audio_transform_>>

\* apply_image_transform(transform, mix_duration, tween), lines 212-220
ApplyImageTransform(fn, mix_duration, tween) ==
  /\ ControlOp(tween)
  /\ last_reset' = NoReset
  /\ root_image_transform_' =
       Retarget(root_image_transform_,
                ApplyFunction(fn, Fetch(root_image_transform_)),
                mix_duration, tween)
  /\ UNCHANGED <<image_transforms_, root_audio_transform_, audio_transforms_>>

\* apply_audio_transform(transform, mix_duration, tween), lines 222-230
ApplyAudioTransform(fn, mix_duration, tween) ==
  /\ ControlOp(tween)
  /\ last_reset' = NoReset
  /\ root_audio_transform_' =
       Retarget(root_audio_transform_,
                ApplyFunction(fn, Fetch(root_audio_transform_)),
                mix_duration, tween)
  /\ UNCHANGED <<root_image_transform_, image_transforms_, audio_transforms_>>

\* apply_image_transform(index, transform, mix_duration, tween), lines 232-240
ApplyImageTransformAt(index, fn, mix_duration, tween) ==
  /\ ControlOp(tween)
  /\ last_reset' = NoReset
  /\ image_transforms_' =
       Put(image_transforms_, index,
           Retarget(At(image_transforms_, index),
                    ApplyFunction(fn, Fetch(At(image_transforms_, index))),
                    mix_duration, tween))
  /\ UNCHANGED <<root_image_transform_, root_audio_transform_, audio_transforms_>>

\* apply_audio_transform(index, transform, mix_duration, tween), lines 242-250
ApplyAudioTransformAt(index, fn, mix_duration, tween) ==
  /\ ControlOp(tween)
  /\ last_reset' = NoReset
  /\ audio_transforms_' =
       Put(audio_transforms_, index,
           Retarget(At(audio_transforms_, index),
                    ApplyFunction(fn, Fetch(At(audio_transforms_, index))),
                    mix_duration, tween))
  /\ UNCHANGED <<root_image_transform_, image_transforms_, root_audio_transform_>>

\* the loops of reset_*_transform: every entry present in the map (the
\* constructor of the first new tween throws if any does)
ResetAll(map, duration, tweener) ==
  [k \in DOMAIN map |-> Retarget(map[k], TransformIdentity, duration, tweener)]

\* what a reset records of itself
ResetRecord(kind, mix_duration, tween) ==
  IF Throws(tween) THEN NoReset
  ELSE [kind |-> kind, duration |-> mix_duration, tick |-> ticks]

\* reset_image_transform(mix_duration, tween), lines 252-260
ResetImageTransform(mix_duration, tween) ==
  /\ ControlOp(tween)
  /\ last_reset' = ResetRecord("image", mix_duration, tween)
  /\ image_transforms_' = ResetAll(image_transforms_, mix_duration, tween)
  /\ root_image_transform_' =
       Retarget(root_image_transform_, TransformIdentity, mix_duration, tween)
  /\ UNCHANGED <<root_audio_transform_, audio_transforms_>>

\* reset_audio_transform(mix_duration, tween), lines 262-270
ResetAudioTransform(mix_duration, tween) ==
  /\ ControlOp(tween)
  /\ last_reset' = ResetRecord("audio", mix_duration, tween)
  /\ audio_transforms_' = ResetAll(audio_transforms_, mix_duration, tween)
  /\ root_audio_transform_' =
       Retarget(root_audio_transform_, TransformIdentity, mix_duration, tween)
  /\ UNCHANGED <<root_image_transform_, image_transforms_>>

\* the control operations called with the values, durations and easing
\* names known, in the mixer's specification
set_image_transform_root ==
  /\ ops < MaxMixerOps
  /\ \E v \in TransformValues, d \in Durations, tw \in TweenNames :
    SetImageTransform(v, d, tw)

set_audio_transform_root ==
  /\ ops < MaxMixerOps
  /\ \E v \in TransformValues, d \in Durations, tw \in TweenNames :
    SetAudioTransform(v, d, tw)

set_image_transform_layer ==
  /\ ops < MaxMixerOps
  /\ \E i \in ControlLayers, v \in TransformValues, d \in Durations,
     tw \in TweenNames : SetImageTransformAt(i, v, d, tw)

set_audio_transform_layer ==
  /\ ops < MaxMixerOps
  /\ \E i \in ControlLayers, v \in TransformValues, d \in Durations,
     tw \in TweenNames : SetAudioTransformAt(i, v, d, tw)

apply_image_transform_root ==
  /\ ops < MaxMixerOps
  /\ \E fn \in TransformFunctions, d \in Durations, tw \in TweenNames :
    ApplyImageTransform(fn, d, tw)

apply_audio_transform_root ==
  /\ ops < MaxMixerOps
  /\ \E fn \in TransformFunctions, d \in Durations, tw \in TweenNames :
    ApplyAudioTransform(fn, d, tw)

apply_image_transform_layer ==
  /\ ops < MaxMixerOps
  /\ \E i \in ControlLayers, fn \in TransformFunctions, d \in Durations,
     tw \in TweenNames : ApplyImageTransformAt(i, fn, d, tw)

apply_audio_transform_layer ==
  /\ ops < MaxMixerOps
  /\ \E i \in ControlLayers, fn \in TransformFunctions, d \in Durations,
     tw \in TweenNames : ApplyAudioTransformAt(i, fn, d, tw)

reset_image_transform ==
  /\ ops < MaxMixerOps
  /\ \E d \in Durations, tw \in TweenNames : ResetImageTransform(d, tw)

reset_audio_transform ==
  /\ ops < MaxMixerOps
  /\ \E d \in Durations, tw \in TweenNames : ResetAudioTransform(d, tw)

(***************************************************************************)
(* The pump's specification                                                *)
(***************************************************************************)
\* the mixer as constructed, in the specifications of the pump
MixerIdle == InitMixer /\ format_desc_mode = "progressive"

\* the input as constructed, in the specifications of the mixer
PumpIdle == InitPump /\ container = VideoFile /\ ~loop_

Init == InitPump /\ MixerIdle

Next ==
  \/ Executor_Run
  \/ ReadFile_Read
  \/ ReadFile_Enqueue
  \/ ReadFile_Check
  \/ ReadFile_Wait
  \/ GetVideoPacket_Notify
  \/ GetAudioPacket_Notify
  \/ GetVideoPacket_Pop
  \/ GetAudioPacket_Pop
  \/ IsEof_Running
  \/ IsEof_Video
  \/ IsEof_Audio
  \/ Dtor_Clear
  \/ Dtor_Stop
  \/ Dtor_Notify
  \/ Dtor_Join

Spec == Init /\ [][Next]_vars

(***************************************************************************)
(* The pump playing a file once, the input alive and the consumer calling  *)
(* get_video_packet again and again. The files hold fewer packets than the *)
(* queues take before read_file waits, so read_file never reaches          *)
(* cond_.wait here. The executor's thread runs the task it has, a call     *)
(* that was started returns, and the consumer, which may make other calls  *)
(* in between, comes back to get_video_packet.                             *)
(***************************************************************************)
InitLive == Init /\ ~loop_

NextLive ==
  \/ Executor_Run
  \/ ReadFile_Read
  \/ ReadFile_Enqueue
  \/ ReadFile_Check
  \/ GetVideoPacket_Notify
  \/ GetAudioPacket_Notify
  \/ GetVideoPacket_Pop
  \/ GetAudioPacket_Pop
  \/ IsEof_Running
  \/ IsEof_Video
  \/ IsEof_Audio

FairLive ==
  /\ WF_vars(Executor_Run)
  /\ WF_vars(ReadFile_Read)
  /\ WF_vars(ReadFile_Enqueue)
  /\ WF_vars(ReadFile_Check)
  /\ WF_vars(GetVideoPacket_Pop)
  /\ WF_vars(GetAudioPacket_Pop)
  /\ WF_vars(IsEof_Running)
  /\ WF_vars(IsEof_Video)
  /\ WF_vars(IsEof_Audio)
  /\ SF_vars(GetVideoPacket_Notify)

SpecLive == InitLive /\ [][NextLive]_vars /\ FairLive

(***************************************************************************)
(* The mixer's specification                                               *)
(***************************************************************************)
InitMixerSpec == InitMixer /\ PumpIdle

NextMixer ==
  \/ Send
  \/ set_image_transform_root
  \/ set_audio_transform_root
  \/ set_image_transform_layer
  \/ set_audio_transform_layer
  \/ apply_image_transform_root
  \/ apply_audio_transform_root
  \/ apply_image_transform_layer
  \/ apply_audio_transform_layer
  \/ reset_image_transform
  \/ reset_audio_transform

SpecMixer == InitMixerSpec /\ [][NextMixer]_vars

(***************************************************************************)
(* One layer fading: a tween is set on layer 0 before the first tick, if   *)
(* at all, and every tick carries one frame of that layer.                 *)
(***************************************************************************)
MaxFadeTicks == 5
MaxFadeDuration == 4

FadeValues == {Rat(0, 1), Rat(1, 4), Rat(1, 2), Rat(3, 4), Rat(1, 1)}

FadeSet ==
  /\ ticks = 0
  /\ ops = 0
  /\ \E v \in FadeValues, d \in 0..MaxFadeDuration :
       SetImageTransformAt(0, v, d, "linear")

FadeTick ==
  /\ ticks < MaxFadeTicks
  /\ Tick(<<Frame(0)>>)

NextFade ==
  \/ FadeSet
  \/ FadeTick

SpecFade == InitMixerSpec /\ [][NextFade]_vars

(***************************************************************************)
(* Ticks with frames the mixers fail to accept                             *)
(***************************************************************************)
MaxFailTicks == 2

FailFrameChoices ==
  {Frame(0), Frame(1), ImageFailsFrame(0), AudioFailsFrame(1)}

FailFrameLists == UNION {[1..n -> FailFrameChoices] : n \in 1..MaxFrames}

FailSend ==
  /\ ticks < MaxFailTicks
  /\ \E frames \in FailFrameLists : Tick(frames)

NextFail ==
  \/ FailSend

SpecFail == InitMixerSpec /\ [][NextFail]_vars

(***************************************************************************)
(* Control operations called with easing names known and unknown           *)
(***************************************************************************)
MaxEasingTicks == 2

EasingNames == TweenNames \cup {"no_such_easing"}

EasingSend ==
  /\ ticks < MaxEasingTicks
  /\ Tick(<<Frame(0)>>)

EasingSet ==
  \E i \in ControlLayers, v \in TransformValues, d \in Durations,
     tw \in EasingNames :
    \/ SetImageTransform(v, d, tw)
    \/ SetAudioTransform(v, d, tw)
    \/ SetImageTransformAt(i, v, d, tw)
    \/ SetAudioTransformAt(i, v, d, tw)

EasingApply ==
  \E i \in ControlLayers, fn \in TransformFunctions, d \in Durations,
     tw \in EasingNames :
    \/ ApplyImageTransform(fn, d, tw)
    \/ ApplyAudioTransform(fn, d, tw)
    \/ ApplyImageTransformAt(i, fn, d, tw)
    \/ ApplyAudioTransformAt(i, fn, d, tw)

EasingReset ==
  \E d \in Durations, tw \in EasingNames :
    \/ ResetImageTransform(d, tw)
    \/ ResetAudioTransform(d, tw)

NextEasing ==
  \/ EasingSend
  \/ EasingSet
  \/ EasingApply
  \/ EasingReset

SpecEasing == InitMixerSpec /\ [][NextEasing]_vars

(***************************************************************************)
(* The mixer's executor and the threads that call the mixer. send submits  *)
(* its task with begin_invoke, the control operations theirs with invoke,  *)
(* which returns when the task has run. The executor has one worker thread *)
(* and is bounded: it holds at most its capacity of tasks, the one being   *)
(* run included, and a submission waits while it is full. Here a task is   *)
(* run in the steps its code is made of.                                   *)
(***************************************************************************)
\* executor_.set_capacity(2)
MIXER_CAPACITY_Mutant == 2 + 1

MIXER_CAPACITY == 2

MaxSent == 3
MaxExecOps == 1

ExecFrameLists == {<<Frame(0)>>, <<Frame(0), Frame(1)>>}

\* the task send submits, lines 150-163
TickTask(frames) ==
  [type |-> "tick", pc |-> "new", i |-> 0, frames |-> frames, op |-> "none",
   index |-> NoLayer, value |-> TransformIdentity, duration |-> 0,
   tweener |-> "linear", src |-> TransformIdentity]

\* the task a control operation submits, e.g. lines 174-179
OpTask(op, index, value, duration, tweener) ==
  [type |-> "op", pc |-> "new", i |-> 0, frames |-> <<>>, op |-> op,
   index |-> index, value |-> value, duration |-> duration,
   tweener |-> tweener, src |-> TransformIdentity]

ExecOps ==
  {OpTask(op, NoLayer, Rat(1, 2), MaxDuration, "linear") :
     op \in {"set_image_root", "set_audio_root", "apply_image_root",
             "reset_image"}}
  \cup {OpTask("set_image_layer", 0, Rat(1, 2), MaxDuration, "linear")}

RemoveAt(q, k) == SubSeq(q, 1, k - 1) \o SubSeq(q, k + 1, Len(q))

\* a pool of workers: every task submitted may be run
Runs_Mutant(k) == k >= 1

\* the one worker thread runs the oldest task, to its end
Runs(k) == k = 1

\* a submission goes through when the executor holds fewer tasks than its
\* capacity
HasRoom == Len(exec_queue) < MIXER_CAPACITY

\* send, line 148: the call starts
Send_Call ==
  /\ ~send_call.active
  /\ sent < MaxSent
  /\ \E frames \in ExecFrameLists :
       send_call' = [active |-> TRUE, frames |-> frames]
  /\ UNCHANGED <<pumpVars, ctl_last, format_desc_mode, root_image_transform_,
                 image_transforms_, root_audio_transform_, audio_transforms_,
                 image_mixer_, audio_mixer_, tick_frames, ticks, outputs, ops,
                 last_reset, exec_queue, ctl_call, sent>>

\* send, line 150: executor_.begin_invoke goes through and send returns
Send_Enqueue ==
  /\ send_call.active
  /\ HasRoom
  /\ exec_queue' = Append(exec_queue, TickTask(send_call.frames))
  /\ send_call' = NoSend
  /\ sent' = sent + 1
  /\ UNCHANGED <<pumpVars, ctl_last, format_desc_mode, root_image_transform_,
                 image_transforms_, root_audio_transform_, audio_transforms_,
                 image_mixer_, audio_mixer_, tick_frames, ticks, outputs, ops,
                 last_reset, ctl_call>>

\* a control operation is called, e.g. line 172
Ctl_Call ==
  /\ ctl_call.pc = "idle"
  /\ ops < MaxExecOps
  /\ \E task \in ExecOps : ctl_call' = [pc |-> "calling", task |-> task]
  /\ UNCHANGED <<pumpVars, ctl_last, format_desc_mode, root_image_transform_,
                 image_transforms_, root_audio_transform_, audio_transforms_,
                 image_mixer_, audio_mixer_, tick_frames, ticks, outputs, ops,
                 last_reset, exec_queue, send_call, sent>>

\* executor_.invoke, e.g. line 174: the task is submitted, the caller waits
Ctl_Enqueue ==
  /\ ctl_call.pc = "calling"
  /\ HasRoom
  /\ exec_queue' = Append(exec_queue, ctl_call.task)
  /\ ctl_call' = [ctl_call EXCEPT !.pc = "waiting"]
  /\ UNCHANGED <<pumpVars, ctl_last, format_desc_mode, root_image_transform_,
                 image_transforms_, root_audio_transform_, audio_transforms_,
                 image_mixer_, audio_mixer_, tick_frames, ticks, outputs, ops,
                 last_reset, send_call, sent>>

\* the frames mix_image goes through, lines 103-104
ImageFrames(task) == Remove(Remove(task.frames, EmptyFrame), EofFrame)

\* the task at k is a tick at point pc
TickAt(k, pc) ==
  /\ k \in 1..Len(exec_queue)
  /\ Runs(k)
  /\ exec_queue[k].type = "tick"
  /\ exec_queue[k].pc = pc

\* the tick task at k ends, by an exception or after output_
TickEnds(k) ==
  /\ exec_queue' = RemoveAt(exec_queue, k)
  /\ tick_frames' = exec_queue[k].frames
  /\ ticks' = ticks + 1

\* mix_image, line 106: image_mixer_.begin_pass()
Exec_TickBegin ==
  \E k \in 1..Len(exec_queue) :
    /\ TickAt(k, "new")
    /\ image_mixer_' = <<>>
    /\ exec_queue' = [exec_queue EXCEPT ![k].pc = "image", ![k].i = 1]
    /\ UNCHANGED <<pumpVars, ctl_last, format_desc_mode, root_image_transform_,
                   image_transforms_, root_audio_transform_,
                   audio_transforms_, audio_mixer_, tick_frames, ticks,
                   outputs, ops, last_reset, send_call, ctl_call, sent>>

\* mix_image, lines 107-128: one frame
Exec_TickImage ==
  \E k \in 1..Len(exec_queue) :
    /\ TickAt(k, "image")
    /\ exec_queue[k].i <= Len(ImageFrames(exec_queue[k]))
    /\ LET frame == ImageFrames(exec_queue[k])[exec_queue[k].i]
           r == MixImageFrame(frame, root_image_transform_, image_transforms_)
       IN  /\ root_image_transform_' = r.root
           /\ image_transforms_' = r.map
           /\ IF frame.kind = "image_fails"
                THEN /\ TickEnds(k)
                     /\ UNCHANGED image_mixer_
                ELSE /\ image_mixer_' = Append(image_mixer_, r.accepted)
                     /\ exec_queue' =
                          [exec_queue EXCEPT ![k].i = exec_queue[k].i + 1]
                     /\ UNCHANGED <<tick_frames, ticks>>
    /\ UNCHANGED <<pumpVars, ctl_last, format_desc_mode, root_audio_transform_,
                   audio_transforms_, audio_mixer_, outputs, ops, last_reset,
                   send_call, ctl_call, sent>>

\* mix_image, line 129, and mix_audio, line 135: audio_mixer_.begin_pass()
Exec_TickBeginAudio ==
  \E k \in 1..Len(exec_queue) :
    /\ TickAt(k, "image")
    /\ exec_queue[k].i > Len(ImageFrames(exec_queue[k]))
    /\ audio_mixer_' = <<>>
    /\ exec_queue' = [exec_queue EXCEPT ![k].pc = "audio", ![k].i = 1]
    /\ UNCHANGED <<pumpVars, ctl_last, format_desc_mode, root_image_transform_,
                   image_transforms_, root_audio_transform_,
                   audio_transforms_, image_mixer_, tick_frames, ticks,
                   outputs, ops, last_reset, send_call, ctl_call, sent>>

\* mix_audio, lines 136-143: one frame
Exec_TickAudio ==
  \E k \in 1..Len(exec_queue) :
    /\ TickAt(k, "audio")
    /\ exec_queue[k].i <= Len(exec_queue[k].frames)
    /\ LET frame == exec_queue[k].frames[exec_queue[k].i]
           r == MixAudioFrame(frame, root_audio_transform_, audio_transforms_)
       IN  /\ root_audio_transform_' = r.root
           /\ audio_transforms_' = r.map
           /\ IF frame.kind = "audio_fails"
                THEN /\ TickEnds(k)
                     /\ UNCHANGED audio_mixer_
                ELSE /\ audio_mixer_' = Append(audio_mixer_, r.accepted)
                     /\ exec_queue' =
                          [exec_queue EXCEPT ![k].i = exec_queue[k].i + 1]
                     /\ UNCHANGED <<tick_frames, ticks>>
    /\ UNCHANGED <<pumpVars, ctl_last, format_desc_mode, root_image_transform_,
                   image_transforms_, image_mixer_, outputs, ops, last_reset,
                   send_call, ctl_call, sent>>

\* send, line 157: output_, and the task is done
Exec_TickOutput ==
  \E k \in 1..Len(exec_queue) :
    /\ TickAt(k, "audio")
    /\ exec_queue[k].i > Len(exec_queue[k].frames)
    /\ outputs' = outputs + 1
    /\ TickEnds(k)
    /\ UNCHANGED <<pumpVars, ctl_last, format_desc_mode, root_image_transform_,
                   image_transforms_, root_audio_transform_,
                   audio_transforms_, image_mixer_, audio_mixer_, ops,
                   last_reset, send_call, ctl_call, sent>>

\* the tween a control task reads and replaces (for a reset: the root's)
OpTarget(task) ==
  CASE task.op = "set_image_layer" -> At(image_transforms_, task.index)
    [] task.op = "set_audio_root" -> root_audio_transform_
    [] OTHER -> root_image_transform_

\* the body of the control operation run by the calling thread itself,
\* whatever the executor is running
OpRuns_Mutant(k) == k >= 1

\* e.g. line 174: executor_.invoke, the body of a control operation is run
\* by the executor
OpRuns(k) == Runs(k)

\* the task at k is a control operation at point pc
OpAt(k, pc) ==
  /\ k \in 1..Len(exec_queue)
  /\ OpRuns(k)
  /\ exec_queue[k].type = "op"
  /\ exec_queue[k].pc = pc

\* e.g. line 176: auto src = root_image_transform_.fetch(); on a layer, line
\* 196: auto src = image_transforms_[index].fetch(), where operator[] inserts
\* the default tween for an index the map has no entry for
Exec_OpRead ==
  \E k \in 1..Len(exec_queue) :
    /\ OpAt(k, "new")
    /\ exec_queue' = [exec_queue EXCEPT ![k].pc = "write",
                                        ![k].src = Fetch(OpTarget(exec_queue[k]))]
    /\ image_transforms_' =
         IF exec_queue[k].op = "set_image_layer"
           THEN Put(image_transforms_, exec_queue[k].index,
                    At(image_transforms_, exec_queue[k].index))
           ELSE image_transforms_
    /\ UNCHANGED <<pumpVars, ctl_last, format_desc_mode, root_image_transform_,
                   root_audio_transform_,
                   audio_transforms_, image_mixer_, audio_mixer_,
                   tick_frames, ticks, outputs, ops, last_reset, send_call,
                   ctl_call, sent>>

\* e.g. lines 177-178: the tween is replaced, the task is done and invoke
\* returns (the loop of a reset, lines 256-258, is one step)
Exec_OpWrite ==
  \E k \in 1..Len(exec_queue) :
    /\ OpAt(k, "write")
    /\ LET task == exec_queue[k]
           dst  == CASE task.op = "apply_image_root"
                          -> ApplyFunction("half", task.src)
                     [] task.op = "reset_image" -> TransformIdentity
                     [] OTHER -> task.value
           tw   == TweenedTransform(task.src, dst, task.duration, task.tweener)
       IN  /\ root_image_transform_' =
                IF task.op \in {"set_image_root", "apply_image_root",
                                "reset_image"}
                  THEN tw ELSE root_image_transform_
           /\ image_transforms_' =
                CASE task.op = "set_image_layer"
                       -> Put(image_transforms_, task.index, tw)
                  [] task.op = "reset_image"
                       -> ResetAll(image_transforms_, task.duration,
                                   task.tweener)
                  [] OTHER -> image_transforms_
           /\ root_audio_transform_' =
                IF task.op = "set_audio_root" THEN tw
                                              ELSE root_audio_transform_
           /\ last_reset' =
                IF task.op = "reset_image"
                  THEN [kind |-> "image", duration |-> task.duration,
                        tick |-> ticks]
                  ELSE NoReset
    /\ exec_queue' = RemoveAt(exec_queue, k)
    /\ ops' = ops + 1
    /\ ctl_call' = NoCtl
    /\ ctl_last' = [tween |-> exec_queue[k].tweener, error |-> "none"]
    /\ UNCHANGED <<pumpVars, format_desc_mode, audio_transforms_,
                   image_mixer_, audio_mixer_, tick_frames, ticks, outputs,
                   send_call, sent>>

NextExec ==
  \/ Send_Call
  \/ Send_Enqueue
  \/ Ctl_Call
  \/ Ctl_Enqueue
  \/ Exec_TickBegin
  \/ Exec_TickImage
  \/ Exec_TickBeginAudio
  \/ Exec_TickAudio
  \/ Exec_TickOutput
  \/ Exec_OpRead
  \/ Exec_OpWrite

SpecExec == InitMixerSpec /\ [][NextExec]_vars

(***************************************************************************)
(* The constructor's repair of the video time base, and fps                *)
(***************************************************************************)
MaxDen == 1001
MaxNum == 2

\* denominators on either side of the points where the float logarithm
\* starts to round up to the next integer, and the largest int
LargeDens ==
  UNION {{Log10fRoundsUpFrom(k) - 1, Log10fRoundsUpFrom(k)} : k \in 7..9}
    \cup {2147483647}

TimeBases == [num : 1..MaxNum, den : (1..MaxDen) \cup LargeDens]

\* the streams are opened, the time base is as the file gives it
InitTimeBase ==
  /\ InitOpened
  /\ ~loop_
  /\ video_time_base \in TimeBases
  /\ ctor_pc = "video"
  /\ fps_ret = NoFps
  /\ MixerIdle

\* constructor, lines 93-97: fix_time_base(video_codec_context_.get()) if the
\* video stream opened
Ctor_FixVideo ==
  /\ ctor_pc = "video"
  /\ ctor_pc' = "audio"
  /\ video_time_base' =
       IF video_codec_context_
         THEN fix_time_base(video_codec_context_, video_time_base)
         ELSE video_time_base
  /\ UNCHANGED <<openVars, fps_ret, file_pos, video_packet_buffer_,
                 audio_packet_buffer_, is_running_, execution_queue_,
                 pump_pc, graph_tag, seek_failed, cons_pc, ret, eof_ret,
                 vlast, alast, vcount, dtor_pc, mixerVars>>

\* constructor, lines 99-103: fix_time_base(video_codec_context_.get()), the
\* video context again, if the audio stream opened
Ctor_FixAudio ==
  /\ ctor_pc = "audio"
  /\ ctor_pc' = "done"
  /\ video_time_base' =
       IF audio_codex_context_
         THEN fix_time_base(video_codec_context_, video_time_base)
         ELSE video_time_base
  /\ UNCHANGED <<openVars, fps_ret, file_pos, video_packet_buffer_,
                 audio_packet_buffer_, is_running_, execution_queue_,
                 pump_pc, graph_tag, seek_failed, cons_pc, ret, eof_ret,
                 vlast, alast, vcount, dtor_pc, mixerVars>>

\* the double den / num: the quotient, or infinity when num is 0 (den >= 1)
Quotient(den, num) ==
  IF num = 0 THEN [kind |-> "infinity"]
             ELSE [kind |-> "quotient", den |-> den, num |-> num]

\* fps, lines 217-220, called on an input that has a video context
Fps ==
  /\ ctor_pc = "done"
  /\ video_codec_context_
  /\ fps_ret = NoFps
  /\ fps_ret' = Quotient(video_time_base.den, video_time_base.num)
  /\ UNCHANGED <<openVars, video_time_base, ctor_pc, file_pos,
                 video_packet_buffer_, audio_packet_buffer_, is_running_,
                 execution_queue_, pump_pc, graph_tag, seek_failed, cons_pc,
                 ret, eof_ret, vlast, alast, vcount, dtor_pc, mixerVars>>

NextTimeBase ==
  \/ Ctor_FixVideo
  \/ Ctor_FixAudio
  \/ Fps

SpecTimeBase == InitTimeBase /\ [][NextTimeBase]_vars

(***************************************************************************)
(* Claims about the input pump                                             *)
(***************************************************************************)
\* what is_eof() states: the executor is stopped and both queues are empty
PumpStoppedAndDrained ==
  /\ ~is_running_
  /\ video_packet_buffer_ = <<>>
  /\ audio_packet_buffer_ = <<>>

IsEof_Returns ==
  /\ IsEof_Running \/ IsEof_Video \/ IsEof_Audio
  /\ cons_pc' = "idle"

\* C1: whenever a call of is_eof() returns, the value it returns is true if
\* and only if, in the state it returns in, the executor is not running and
\* both packet queues are empty (the three reads of is_eof are separate
\* steps, the pump running beside them).
C1_IsEofIffStoppedAndDrained ==
  [][IsEof_Returns => (eof_ret' <=> PumpStoppedAndDrained')]_vars

\* C1 witness: is_eof() has returned true
C1_Witness == eof_ret = TRUE /\ cons_pc = "idle" /\ vlast # EmptyBuffer

\* the positions in the file of the packets of stream index s
StreamPositions(s) ==
  {p \in 1..Len(container.packets) : container.packets[p] = s}

MinOf(S) == CHOOSE x \in S : \A y \in S : x <= y

\* the packet of stream s that follows packet `last` in container order
\* (the first one after a seek to the start, when looping); 0 when none
NextInStream(s, last) ==
  LET later == {p \in StreamPositions(s) : p > last}
  IN  IF later # {} THEN MinOf(later)
      ELSE IF loop_ /\ StreamPositions(s) # {} THEN MinOf(StreamPositions(s))
      ELSE EmptyBuffer

\* a step leaves queue q alone, pops its head, or pushes the packet of
\* stream s that follows the newest one queued (or, the queue empty, the last
\* one the consumer got)
QueueStepInOrder(q, qn, s, last) ==
  \/ qn = q
  \/ q # <<>> /\ qn = Tail(q)
  \/ /\ Len(qn) = Len(q) + 1
     /\ SubSeq(qn, 1, Len(q)) = q
     /\ qn[Len(qn)] # EmptyBuffer
     /\ qn[Len(qn)] = NextInStream(s, IF q = <<>> THEN last ELSE q[Len(q)])

\* C2: every non-empty buffer get_video_packet returns is the video packet
\* that follows, in container order, the last one it returned (the first
\* video packet at the start), so none is lost, duplicated or reordered; the
\* same for audio; and the only packet ever pushed to a queue is the next
\* packet of that queue's own stream, so a packet of another stream is never
\* queued.
C2_PacketsInContainerOrder ==
  [][ /\ (GetVideoPacket_Pop /\ ret' # EmptyBuffer)
          => ret' = NextInStream(video_s_index_, vlast)
      /\ (GetAudioPacket_Pop /\ ret' # EmptyBuffer)
          => ret' = NextInStream(audio_s_index_, alast)
      /\ QueueStepInOrder(video_packet_buffer_, video_packet_buffer_',
                          video_s_index_, vlast)
      /\ QueueStepInOrder(audio_packet_buffer_, audio_packet_buffer_',
                          audio_s_index_, alast) ]_vars

\* C2 witness: both video packets and the audio packet of the file that also
\* holds a data packet have reached the consumer, the data packet dropped
C2_Witness ==
  /\ container = VideoDataAudioFile
  /\ vlast = 3
  /\ alast = 4
  /\ ret = 4

\* N of C3: the video packets the container holds
VideoPacketCount == Cardinality(StreamPositions(video_s_index_))

\* C3 (the claim as stated, its last part): playing a file once, the
\* consumer calling get_video_packet again and again, is_eof() eventually
\* becomes true.
C3_EofEventually == <>PumpStoppedAndDrained

\* C3 (amended): playing a file once, the consumer calling get_video_packet
\* again and again, it never obtains more than N non-empty packets and ends
\* having obtained exactly N; if from some point on the audio queue is empty
\* (no audio packet in the file, or the consumer has taken them), is_eof()
\* becomes and stays true; and every get_video_packet that takes its buffer
\* while is_eof() is true returns an empty buffer.
C3_VideoPacketsThenEof ==
  /\ [](vcount <= VideoPacketCount)
  /\ <>[](vcount = VideoPacketCount)
  /\ (<>[](audio_packet_buffer_ = <<>>)) => <>[]PumpStoppedAndDrained
  /\ [][(PumpStoppedAndDrained /\ GetVideoPacket_Pop)
          => ret' = EmptyBuffer]_vars

\* C3 witness: both video packets of the file with three streams obtained,
\* the audio packet taken as well, is_eof() true and the last
\* get_video_packet returned empty
C3_Witness ==
  /\ ~loop_
  /\ container = VideoDataAudioFile
  /\ vcount = 2
  /\ PumpStoppedAndDrained
  /\ cons_pc = "idle"
  /\ ret = EmptyBuffer

\* C4: when looping, a failed read whose seek succeeds leaves the file at
\* its first packet, emits the "seek" tag and leaves the executor running;
\* and as long as no seek has failed and the input is not being destroyed,
\* the executor runs and no call of is_eof() has returned true.
C4_LoopSeeksAndNeverEof ==
  [][ /\ (ReadFile_Read /\ loop_ /\ file_pos > Len(container.packets)
            /\ ~seek_failed')
          => (file_pos' = 1 /\ graph_tag' /\ is_running_' = is_running_)
      /\ (loop_ /\ ~seek_failed' /\ dtor_pc' = "alive")
          => (is_running_' /\ ~PumpStoppedAndDrained' /\ ~eof_ret') ]_vars

\* C4 witness: a looping pump has reached the end of the file, sought back
\* to its start and emitted the tag; the consumer has taken every packet of
\* the pass, the queues are empty and the executor still runs
C4_Witness ==
  /\ loop_
  /\ container = VideoFile
  /\ ~seek_failed
  /\ graph_tag
  /\ is_running_
  /\ file_pos = 1
  /\ ret = 3
  /\ video_packet_buffer_ = <<>>
  /\ ~eof_ret

\* C5 (the claim as stated): once a call of get_video_packet or
\* get_audio_packet has returned, the pump is not left blocked in cond_.wait
\* with the wait predicate false.
C5_PopResumesPump ==
  (dtor_pc = "alive" /\ cons_pc = "idle" /\ pump_pc = "wait") => WaitPredicate

\* C6 (the claim as stated): once the destructor has issued its notify_all,
\* the pump task is not blocked in cond_.wait.
C6_DestructionCompletes ==
  (dtor_pc = "join") => pump_pc # "wait"

(***************************************************************************)
(* Claims about the mixer                                                  *)
(***************************************************************************)
\* the layers of the frames of a tick that are neither empty nor eof
LayersOf(frames) ==
  {frames[i].layer : i \in {j \in 1..Len(frames) :
                                frames[j].kind = "frame"}}

FieldsPerTick == IF format_desc_mode = "progressive" THEN 1 ELSE 2

AdvancedBy(before, after, n) ==
  after.time = MinInt(before.time + n, before.duration)

\* C7 (the claim as stated): a tick that carries at least one frame that is
\* neither empty nor eof advances the elapsed time of the root image tween,
\* and of the image tween of every layer with a frame in the tick, by
\* exactly 1 when the format is progressive and by exactly 2 when it is
\* interlaced, clamped at the tween's duration, however many frames the
\* tick carries.
C7_TweenAdvancePerTick ==
  [][(Send /\ LayersOf(tick_frames') # {})
      => /\ AdvancedBy(root_image_transform_, root_image_transform_',
                       FieldsPerTick)
         /\ \A l \in LayersOf(tick_frames') :
              AdvancedBy(At(image_transforms_, l), At(image_transforms_', l),
                         FieldsPerTick)]_vars

ImageTweens ==
  {root_image_transform_}
    \cup {image_transforms_[l] : l \in DOMAIN image_transforms_}

AudioTweens ==
  {root_audio_transform_}
    \cup {audio_transforms_[l] : l \in DOMAIN audio_transforms_}

\* C8 (the claim as stated): a tween of duration 0, put in place by a set or
\* an apply on the root or on a layer, evaluates to its destination from the
\* next fetch on.
C8_ZeroDurationResolves ==
  \A tw \in ImageTweens \cup AudioTweens :
    tw.duration = 0 => TransformEq(Fetch(tw), tw.dest)

\* source + (dest - source) * m / d, the linear interpolation m steps into d
Interpolation(source, dest, m, d) ==
  [num |-> BigAdd(BigMul(BigMul(source.num, dest.den), BigOfNat(d - m)),
                  BigMul(BigMul(dest.num, source.den), BigOfNat(m))),
   den |-> BigMul(BigMul(source.den, dest.den), BigOfNat(d))]

\* C9 (the claim as stated): in progressive mode, one layer, the root the
\* identity, a linear tween of duration d > 0 set on the layer before the
\* first tick: the transform written to the layer's frame at tick k is the
\* linear interpolation min(k, d) / d of the way from the tween's source to
\* the value set, and from tick d on it equals the value set.
C9_ProgressiveFade ==
  (format_desc_mode = "progressive" /\ ops = 1 /\ ticks >= 1
     /\ image_transforms_[0].duration > 0)
  => LET tw == image_transforms_[0]
         written == image_mixer_[1].transform
     IN  /\ TransformEq(written,
                        Interpolation(tw.source, tw.dest,
                                      MinInt(ticks, tw.duration), tw.duration))
         /\ ticks >= tw.duration => TransformEq(written, tw.dest)

\* C10: in interlaced mode, one layer, a tween of duration d set on it before
\* the first tick (or none, the tween then the default one): tick k gives the
\* image mixer exactly one frame for the one frame it carries; the two
\* fields are the tween evaluated at elapsed times min(2k-1, d) and
\* min(2k, d); the frame is the interlaced frame of both fields if and only
\* if the two transforms differ, and otherwise the frame of the second field.
C10_InterlacedFields ==
  (format_desc_mode # "progressive" /\ ticks >= 1)
  => LET tw == image_transforms_[0]
         at(n) == Tween(MinInt(n, tw.duration), tw.source, tw.dest,
                        tw.duration, tw.tweener)
         first == at(2 * ticks - 1)
         second == at(2 * ticks)
         accepted == image_mixer_[1]
     IN  /\ Len(image_mixer_) = 1
         /\ accepted.layer = 0
         /\ accepted.transform = second
         /\ accepted.kind = "interlaced" <=> ~TransformEq(first, second)
         /\ accepted.kind = "interlaced" => accepted.first = first
         /\ accepted.kind \in {"interlaced", "frame"}

\* C10 witness: the second tick of a fade of duration 4 to opacity 1/4, whose
\* fields, at elapsed times 3 and 4, differ and are interlaced
C10_Witness ==
  /\ format_desc_mode # "progressive"
  /\ ticks = 2
  /\ ops = 1
  /\ image_transforms_[0].duration = 4
  /\ image_transforms_[0].dest = Rat(1, 4)
  /\ image_transforms_[0].time = 4
  /\ image_mixer_[1].kind = "interlaced"

\* C11 (the claim as stated): in progressive mode, once `duration` ticks,
\* whatever frames they carry, have followed reset_image_transform(duration,
\* easing), the root image tween and the image tween of every layer in the
\* registry evaluate to their destination, the identity; the same for
\* reset_audio_transform and the audio tweens.
C11_ResetReachesIdentity ==
  (format_desc_mode = "progressive"
     /\ last_reset.kind # "none"
     /\ ticks - last_reset.tick >= last_reset.duration)
  => \A tw \in (IF last_reset.kind = "image" THEN ImageTweens
                                             ELSE AudioTweens) :
       /\ TransformEq(tw.dest, TransformIdentity)
       /\ TransformEq(Fetch(tw), TransformIdentity)

\* the layers of the items a mixer accepted, in order
LayerSeq(items) == [i \in 1..Len(items) |-> items[i].layer]

RECURSIVE Without(_, _)
\* the frames with those of one kind left out
Without(frames, kind) ==
  IF frames = <<>> THEN <<>>
  ELSE IF Head(frames).kind = kind THEN Without(Tail(frames), kind)
  ELSE <<Head(frames)>> \o Without(Tail(frames), kind)

\* C12 (the claim as stated): a tick in which the image mixer or the audio
\* mixer fails to accept a layer's frame is not aborted: the image mixer
\* accepts every frame of the tick but those it fails on, the audio mixer
\* every frame but those it fails on, and one composite is published for
\* the tick.
C12_AcceptFailureKeepsTick ==
  [][FailSend
      => /\ outputs' = outputs + 1
         /\ LayerSeq(image_mixer_')
              = LayerSeq(Without(tick_frames', "image_fails"))
         /\ LayerSeq(audio_mixer_')
              = LayerSeq(Without(tick_frames', "audio_fails"))]_vars

(***************************************************************************)
(* Claims about the mixer's executor                                       *)
(***************************************************************************)
TasksOutstanding(type) ==
  Cardinality({k \in 1..Len(exec_queue) : exec_queue[k].type = type})

\* C13: at most 2 ticks are outstanding (submitted and not completed); every
\* tick sent is outstanding or has been executed, none is dropped; a call of
\* send made while fewer than 2 sends have returned, no control operation
\* outstanding, is not held up; and the n-th call of send, n >= 3, returns
\* only once tick n - 2 has completed.
C13_TwoOutstandingTicks ==
  /\ [](/\ TasksOutstanding("tick") <= 2
        /\ sent = ticks + TasksOutstanding("tick")
        /\ (send_call.active /\ sent < 2 /\ TasksOutstanding("op") = 0)
             => HasRoom)
  /\ [][Send_Enqueue => ticks >= sent' - 2]_vars

\* C13 witness: two calls of send have returned, no tick has completed and
\* the third call is held up
C13_Witness ==
  /\ sent = 2
  /\ ticks = 0
  /\ TasksOutstanding("tick") = 2
  /\ send_call.active
  /\ ~HasRoom

\* a control task has read the value of its tween and not yet replaced it
OpHasRead ==
  \E k \in 1..Len(exec_queue) :
    exec_queue[k].type = "op" /\ exec_queue[k].pc = "write"

\* a tick has used the registry for a frame and will use it for another
TickUnderWay ==
  \E k \in 1..Len(exec_queue) :
    LET task == exec_queue[k] IN
    /\ task.type = "tick"
    /\ \/ task.pc = "image" /\ task.i > 1
       \/ /\ task.pc = "audio"
          /\ task.i <= Len(task.frames)
          /\ (task.i > 1 \/ ImageFrames(task) # <<>>)

\* C14: for any interleaving of the calls of send and of the control
\* operations, between the read of the evaluated value by a control
\* operation and its replacement of the tween no step of a tick changes a
\* tween, and no control operation replaces a tween while a tick is between
\* two of its uses of the registry, nor reads one (the read on a layer may
\* insert the layer's default entry): a tick sees the registry entirely
\* before or entirely after the operation.
C14_ControlOpsAtomic ==
  [][ /\ OpHasRead
          => (ops' = ops + 1
                \/ UNCHANGED <<root_image_transform_, image_transforms_,
                               root_audio_transform_, audio_transforms_>>)
      /\ TickUnderWay => (ops' = ops /\ ~Exec_OpRead) ]_vars

\* C14 witness: a tick has completed and a control operation, called while
\* the next tick is between two frames, waits behind it in the executor
C14_Witness ==
  /\ ticks = 1
  /\ TickUnderWay
  /\ Len(exec_queue) = 2
  /\ exec_queue[2].type = "op"
  /\ exec_queue[2].pc = "new"
  /\ ctl_call.pc = "waiting"

\* C15: a set, apply or reset called with an easing name that is not known
\* ends with the invalid-easing error at its caller, and leaves the tween of
\* the root and of every layer, image and audio, as it was: source, target,
\* duration and elapsed time; a reset that fails replaces no entry.
SameTweens ==
  /\ root_image_transform_' = root_image_transform_
  /\ root_audio_transform_' = root_audio_transform_
  /\ \A l \in Layers \cup {NoLayer} :
       /\ At(image_transforms_', l) = At(image_transforms_, l)
       /\ At(audio_transforms_', l) = At(audio_transforms_, l)

C15_InvalidEasingRejected ==
  [][ops' = ops + 1 =>
       /\ ctl_last'.tween \notin TweenNames
            <=> ctl_last'.error = "invalid_easing"
       /\ ctl_last'.error = "invalid_easing" =>
            /\ SameTweens
            /\ EasingReset =>
                 UNCHANGED <<image_transforms_, audio_transforms_>>]_vars

C15_Witness ==
  /\ ctl_last.error = "invalid_easing"
  /\ ops = 2
  /\ ticks = 1
  /\ root_image_transform_.duration = MaxDuration
  /\ root_image_transform_.time = 1
  /\ ~TransformEq(root_image_transform_.dest, TransformIdentity)

\* new is the tween from the value old evaluates to, to x, lasting d with
\* easing e, no time elapsed
Replaces(new, old, x, d, e) ==
  /\ TransformEq(new.source, Fetch(old))
  /\ new.dest = x
  /\ new.duration = d
  /\ new.tweener = e
  /\ new.time = 0

\* the elapsed times of the tweens, the one a set replaces apart
TimesKept(imageRoot, imageLayers, audioRoot, audioLayers) ==
  /\ imageRoot => root_image_transform_'.time = root_image_transform_.time
  /\ audioRoot => root_audio_transform_'.time = root_audio_transform_.time
  /\ \A l \in imageLayers :
       At(image_transforms_', l).time = At(image_transforms_, l).time
  /\ \A l \in audioLayers :
       At(audio_transforms_', l).time = At(audio_transforms_, l).time

AllLayers == Layers \cup {NoLayer}

\* C16: a set(x, d, e), on the root or on a layer, image or audio, at any
\* moment, puts in place of the tween the one whose source is the value the
\* old tween evaluated to, whose destination is x and whose elapsed time is
\* 0, and changes the elapsed time of no other tween; and a tween k steps
\* after it was put in place (k <= d) evaluates to the easing at k from its
\* source to its destination over d + 0.000001.
C16_SetRetargets ==
  /\ [][\A i \in ControlLayers, x \in TransformValues, d \in Durations,
           e \in TweenNames :
          /\ SetImageTransform(x, d, e) =>
               /\ Replaces(root_image_transform_', root_image_transform_, x, d, e)
               /\ TimesKept(FALSE, AllLayers, TRUE, AllLayers)
          /\ SetAudioTransform(x, d, e) =>
               /\ Replaces(root_audio_transform_', root_audio_transform_, x, d, e)
               /\ TimesKept(TRUE, AllLayers, FALSE, AllLayers)
          /\ SetImageTransformAt(i, x, d, e) =>
               /\ Replaces(At(image_transforms_', i), At(image_transforms_, i),
                           x, d, e)
               /\ TimesKept(TRUE, AllLayers \ {i}, TRUE, AllLayers)
          /\ SetAudioTransformAt(i, x, d, e) =>
               /\ Replaces(At(audio_transforms_', i), At(audio_transforms_, i),
                           x, d, e)
               /\ TimesKept(TRUE, AllLayers, TRUE, AllLayers \ {i})]_vars
  /\ [](\A tw \in ImageTweens \cup AudioTweens :
          /\ tw.time <= tw.duration
          /\ TransformEq(Fetch(tw),
                         Interpolation(tw.source, tw.dest,
                                       tw.time * TWEEN_EPSILON_INV,
                                       tw.duration * TWEEN_EPSILON_INV + 1)))

\* a set on the root in the middle of a tween, and one step after it
C16_Witness ==
  /\ ops = 2
  /\ ticks = 2
  /\ root_image_transform_.time = 1
  /\ root_image_transform_.duration = MaxDuration
  /\ \A x \in TransformValues \cup {TransformIdentity} :
       ~TransformEq(root_image_transform_.source, x)

\* basic_frame::empty() and basic_frame::eof()
Filtered(frame) == frame.kind \in {"empty", "eof"}

\* C17 (the claim as stated): a tick accepts no EMPTY and no EOF frame in the
\* image mixer nor in the audio mixer, and a tick whose frames are all EMPTY
\* or EOF leaves the elapsed time of every tween, root and layers, image and
\* audio, as it was.
C17_EmptyEofFiltered ==
  [][ticks' = ticks + 1 =>
       /\ \A i \in DOMAIN image_mixer_' : ~Filtered(image_mixer_'[i])
       /\ \A i \in DOMAIN audio_mixer_' : ~Filtered(audio_mixer_'[i])
       /\ (\A i \in DOMAIN tick_frames' : Filtered(tick_frames'[i]))
            => TimesKept(TRUE, AllLayers, TRUE, AllLayers)]_vars

\* the first stream of the type is in the container and its decoder cannot
\* be found or opened
Undecodable(type) ==
  /\ FirstStream(container, type) # 0
  /\ ~container.streams[FirstStream(container, type)].decoder

\* C18 (the claim as stated): when the container has a stream of one kind
\* whose decoder cannot be found or opened, the codec context of that kind is
\* null, the queue of that kind stays empty as long as the pump lives, and
\* the input was constructed because the other kind opened.
C18_UndecodableStreamSkipped ==
  /\ Undecodable("audio") =>
       /\ ~audio_codex_context_
       /\ audio_packet_buffer_ = <<>>
       /\ video_codec_context_
  /\ Undecodable("video") =>
       /\ ~video_codec_context_
       /\ video_packet_buffer_ = <<>>
       /\ audio_codex_context_

\* what a queue may become when nothing is pushed: itself, or itself less its
\* first packet
Popped(buffer) == {buffer} \cup (IF buffer = <<>> THEN {} ELSE {Tail(buffer)})

\* C19: with loop=true, the read that fails and whose seek to the start
\* fails too stops the executor and touches neither queue; from then on the
\* executor stays stopped, nothing is read and nothing is pushed, a
\* get_video_packet or get_audio_packet returns the first packet of its
\* queue (an empty buffer once the queue is empty), and a call of is_eof()
\* returns true exactly when both queues are empty.
C19_SeekFailureStopsPump ==
  [][ /\ (ReadFile_Read /\ loop_ /\ file_pos > Len(container.packets)
            /\ seek_failed')
          => /\ ~is_running_'
             /\ UNCHANGED <<video_packet_buffer_, audio_packet_buffer_,
                            file_pos>>
      /\ seek_failed
          => /\ seek_failed' /\ ~is_running_'
             /\ ~ReadFile_Read
             /\ file_pos' = file_pos
             /\ video_packet_buffer_' \in Popped(video_packet_buffer_)
             /\ audio_packet_buffer_' \in Popped(audio_packet_buffer_)
             /\ (GetVideoPacket_Pop /\ video_packet_buffer_ # <<>>)
                  => ret' = Head(video_packet_buffer_)
             /\ (GetAudioPacket_Pop /\ audio_packet_buffer_ # <<>>)
                  => ret' = Head(audio_packet_buffer_)
             /\ IsEof_Returns
                  => (eof_ret' <=> (video_packet_buffer_' = <<>>
                                      /\ audio_packet_buffer_' = <<>>)) ]_vars

\* C19 witness: the seek has failed, the worker thread has ended, the
\* consumer has taken the packets that were queued, audio and video, and
\* is_eof() has returned true
C19_Witness ==
  /\ loop_
  /\ seek_failed
  /\ pump_pc = "done"
  /\ container = AudioVideoFile
  /\ vlast # EmptyBuffer
  /\ alast # EmptyBuffer
  /\ ret = EmptyBuffer
  /\ eof_ret
  /\ cons_pc = "idle"
  /\ dtor_pc = "alive"

\* both queues hold more than PACKET_BUFFER_COUNT packets
BothExceed(n) ==
  Len(video_packet_buffer_) > n /\ Len(audio_packet_buffer_) > n

\* C20: in every state of the pump, whatever the consumer does, one of the
\* two queues at least holds no more than PACKET_BUFFER_COUNT + 1 packets;
\* a read_file pushes one packet at most, and the worker thread starts no
\* read_file while both queues hold more than PACKET_BUFFER_COUNT.
C20_OneQueueBounded ==
  /\ [](MinInt(Len(video_packet_buffer_), Len(audio_packet_buffer_))
          <= PACKET_BUFFER_COUNT + 1)
  /\ [][ /\ ReadFile_Read => Queued' <= Queued + 1
         /\ (Executor_Run /\ pump_pc' = "read")
              => ~BothExceed(PACKET_BUFFER_COUNT) ]_vars

\* C20 witness: read_file waits with PACKET_BUFFER_COUNT + 1 packets in the
\* audio queue and more than that in the video queue
C20_Witness ==
  /\ pump_pc = "wait"
  /\ Len(audio_packet_buffer_) = PACKET_BUFFER_COUNT + 1
  /\ Len(video_packet_buffer_) > PACKET_BUFFER_COUNT + 1

\* 10^(floor(log10(den)) - 1) truncated to an integer, for the number of
\* decimal digits of den
RECURSIVE Repaired(_)
Repaired(den) ==
  IF den < 10 THEN 0
  ELSE IF den < 100 THEN 1 ELSE 10 * Repaired(den \div 10)

\* C21 (the claim as stated): the repair of a video time base with num = 1
\* and den >= 1 sets num to 10^(floor(log10(den)) - 1) truncated to an
\* integer, which is 1 or more; fps never divides by 0; and the second
\* repair of the same context, done when the audio stream opened, leaves num
\* as the first left it.
C21_TimeBaseRepair ==
  [][ /\ (Ctor_FixVideo /\ video_codec_context_ /\ video_time_base.num = 1)
          => /\ video_time_base'.num = Repaired(video_time_base.den)
             /\ video_time_base'.num >= 1
             /\ video_time_base'.den = video_time_base.den
      /\ (Ctor_FixAudio /\ audio_codex_context_)
          => video_time_base' = video_time_base
      /\ Fps => /\ video_time_base.num # 0
                /\ fps_ret'.kind = "quotient" ]_vars

====
